---- MODULE Spec2Model ----
(***************************************************************************)
(* Lofi-BTB backend: the playlist, like, song, user and search routes of    *)
(* the REST API, modelled over the three collections (users, songs,        *)
(* playlists).                                                             *)
(*                                                                         *)
(* One request is one process (a slot of `req`).  A handler is an async    *)
(* function: between two database operations other requests may run, so   *)
(* every action below is one database operation of a handler together     *)
(* with the synchronous code that follows it up to the next `await`.       *)
(*                                                                         *)
(* Documents are Mongoose documents.  `doc.save()` does not write the      *)
(* document back, it sends the delta of the local modifications:           *)
(*   - array.push(x)      -> $push x, $inc __v (no version in the filter)  *)
(*   - array.splice(...)  -> $set of the whole local array, filtered on    *)
(*                           the __v that was read, $inc __v; no match is  *)
(*                           a VersionError                                *)
(*   - field = value      -> $set of the fields whose value changed        *)
(*   - nothing modified   -> no write, only a check the document exists    *)
(* A save whose filter matches no document rejects; the route has no       *)
(* try/catch, so the request ends 500 (express-async-errors).              *)
(* Path and body ids are drawn from well-formed ObjectIds, so validObjectId *)
(* always passes and is not modelled.                                      *)
(***************************************************************************)
EXTENDS Integers, Sequences, FiniteSets, TLC

\* ---- bound of the model: the number of requests a behaviour holds
MaxRequests == 2

\* ---- the universe of ids and inputs
UserIds == {"u1", "u2"}
Admins == {"u2"}
NoUser == "anonymous"
Callers == UserIds \cup {NoUser}
SongIds == {"s1", "s2", "s3"}
\* ObjectIds of the users and songs that POST /api/users and POST /api/songs add
UserOrder == <<"u3">>
SongOrder == <<"s4">>
AllUserIds == UserIds \cup {UserOrder[i] : i \in 1..Len(UserOrder)}
AllSongIds == SongIds \cup {SongOrder[i] : i \in 1..Len(SongOrder)}
\* ObjectIds of playlists, in the order the driver generates them
PlaylistOrder == <<"p1", "p2">>
PlaylistIds == {PlaylistOrder[i] : i \in 1..Len(PlaylistOrder)}
NoId == "none"
NoVal == "undefined"
Slots == {1, 2}

\* request bodies of POST /api/playlists and PUT /api/playlists/edit/:id
Bodies ==
  { [name |-> NoVal, desc |-> "",    img |-> ""],
    [name |-> "B",   desc |-> "", img |-> NoVal] }

VARIABLES users, songs, playlists, nPl, req, started

vars == <<users, songs, playlists, nPl, req, started>>

\* ---- documents
NoUserDoc ==
  [exists |-> FALSE, email |-> NoVal, likedSongs |-> <<>>, playList |-> <<>>, v |-> 0]

NoSongDoc == [exists |-> FALSE, name |-> NoVal]

NoPlaylistDoc ==
  [exists |-> FALSE, user |-> NoUser, name |-> NoVal, desc |-> NoVal,
   img |-> NoVal, songs |-> <<>>, v |-> 0]

NoBody == [name |-> NoVal, desc |-> NoVal, img |-> NoVal]

IdleReq ==
  [op |-> "none", pc |-> "idle", caller |-> NoUser, pid |-> NoId, sid |-> NoVal,
   uid |-> NoUser, body |-> NoBody, user |-> NoUserDoc, playList |-> NoPlaylistDoc,
   status |-> 0, message |-> "", data |-> {}, found |-> {}, no |-> 0,
   overlapped |-> {}]

\* ---- JavaScript array helpers
Min(a, b) == IF a < b THEN a ELSE b

Max(a, b) == IF a > b THEN a ELSE b

Range(arr) == {arr[i] : i \in 1..Len(arr)}

\* Array.prototype.indexOf: 0-based index of the first occurrence, -1 if none
IndexOf(arr, x) ==
  IF \E i \in 1..Len(arr) : arr[i] = x
  THEN (CHOOSE i \in 1..Len(arr) :
          arr[i] = x /\ \A j \in 1..(i - 1) : arr[j] # x) - 1
  ELSE -1

\* Array.prototype.splice(start, deleteCount): a negative start counts from the end
Splice(arr, start, deleteCount) ==
  LET n == Len(arr)
      s == IF start < 0 THEN Max(n + start, 0) ELSE Min(start, n)
      d == Min(Max(deleteCount, 0), n - s)
  IN  SubSeq(arr, 1, s) \o SubSeq(arr, s + d + 1, n)

Push(arr, x) == Append(arr, x)

NoDup(arr) == \A i, j \in 1..Len(arr) : arr[i] = arr[j] => i = j

\* ---- middleware
\* auth: the token resolves to an identity or the request is rejected
auth(caller) == caller \in UserIds

EveryCaller(caller) == TRUE

\* admin: the token carries the admin role
authAdmin(caller) == caller \in Admins

AnyName(body) == TRUE

\* joi name: joi.string().required()
ValidName(body) == body.name # NoVal /\ body.name # ""

\* User.findById: the document, or null
FindUser(id) == IF id \in UserIds THEN users[id] ELSE NoUserDoc

\* the ids of the songs in the catalog
Catalog == {s \in AllSongIds : songs[s].exists}

\* the handlers that read only user._id of the user document
FindUserId(id) == [NoUserDoc EXCEPT !.exists = FindUser(id).exists]

\* ---- request bookkeeping
\* `no` numbers the requests in the order they arrive.  A finished request keeps
\* its parameters and its response; its local documents are gone.
Free(r) == req[r].pc \in {"idle", "done"}

\* slots are interchangeable: a request takes the free slot whose record is oldest
CanStart(r) ==
  /\ Free(r)
  /\ started < MaxRequests
  /\ \A q \in Slots :
       Free(q) => req[r].no < req[q].no \/ (req[r].no = req[q].no /\ r <= q)

Begin(r, op, caller) ==
  [IdleReq EXCEPT !.op = op, !.caller = caller, !.no = started + 1]

Respond(q, status, message) ==
  [q EXCEPT !.pc = "done", !.status = status, !.message = message,
            !.user = NoUserDoc, !.playList = NoPlaylistDoc]

OwnsAnyPlaylist(user, caller, playList) == TRUE

\* user._id.equals(playList.user)
Owns(user, caller, playList) == playList.user = caller

\* ---- Mongoose save() deltas
\* $push of one element, version incremented, no version filter
SavePush(doc, field, x) ==
  [doc EXCEPT ![field] = Push(doc[field], x), !.v = doc.v + 1]

\* $set of a whole array, filtered on the version read
SaveArrayMatches(doc, snapshot) == doc.exists /\ doc.v = snapshot.v

SaveArray(doc, field, local) ==
  [doc EXCEPT ![field] = local, !.v = doc.v + 1]

\* $set of the scalar fields that were modified locally
SaveFields(doc, snapshot, body) ==
  [doc EXCEPT !.name = IF body.name # snapshot.name THEN body.name ELSE doc.name,
              !.desc = IF body.desc # snapshot.desc THEN body.desc ELSE doc.desc,
              !.img = IF body.img # snapshot.img THEN body.img ELSE doc.img]

\* ---- POST /api/playlists
PendingCreates == Cardinality({r \in Slots : req[r].op = "create" /\ req[r].pc = "insert"})

AnyPlaylist(body) == TRUE

\* validate of models/playList: the name is required
ValidPlaylist(body) == body.name # NoVal /\ body.name # ""

CreateStart(r, caller, body) ==
  /\ CanStart(r)
  /\ nPl + PendingCreates < Len(PlaylistOrder)
  /\ started' = started + 1
  /\ LET q == [Begin(r, "create", caller) EXCEPT !.body = body, !.user = FindUserId(caller)]
     IN  req' = [req EXCEPT ![r] =
           IF ~auth(caller) THEN Respond(q, 401, "Access denied")
           ELSE IF ~ValidPlaylist(body) THEN Respond(q, 400, "name is required")
           ELSE IF ~q.user.exists THEN Respond(q, 500, "TypeError")
           ELSE [q EXCEPT !.pc = "insert"]]
  /\ UNCHANGED <<users, songs, playlists, nPl>>

CreateInsert(r) ==
  /\ req[r].op = "create" /\ req[r].pc = "insert"
  /\ nPl' = nPl + 1
  /\ LET id == PlaylistOrder[nPl + 1]
     IN  /\ playlists' = [playlists EXCEPT ![id] =
               [exists |-> TRUE, user |-> req[r].caller, name |-> req[r].body.name,
                desc |-> req[r].body.desc, img |-> req[r].body.img,
                songs |-> <<>>, v |-> 0]]
         /\ req' = [req EXCEPT ![r].pc = "saveUser", ![r].pid = id]
  /\ UNCHANGED <<users, songs, started>>

CreateSaveUser(r) ==
  /\ req[r].op = "create" /\ req[r].pc = "saveUser"
  /\ LET u == req[r].caller
     IN  IF users[u].exists
         THEN /\ users' = [users EXCEPT ![u] = SavePush(users[u], "playList", req[r].pid)]
              /\ req' = [req EXCEPT ![r] = Respond(req[r], 200, "created")]
         ELSE /\ users' = users
              /\ req' = [req EXCEPT ![r] = Respond(req[r], 500, "DocumentNotFoundError")]
  /\ UNCHANGED <<songs, playlists, nPl, started>>

\* ---- PUT /api/playlists/edit/:id
EditStart(r, caller, pid, body) ==
  /\ CanStart(r)
  /\ started' = started + 1
  /\ LET q == [Begin(r, "edit", caller) EXCEPT !.pid = pid, !.body = body]
     IN  req' = [req EXCEPT ![r] =
           IF ~auth(caller) THEN Respond(q, 401, "Access denied")
           ELSE IF ~ValidName(body) THEN Respond(q, 400, "name is required")
           ELSE IF ~playlists[pid].exists THEN Respond(q, 404, "Playlist not found")
           ELSE [q EXCEPT !.pc = "readUser", !.playList = playlists[pid]]]
  /\ UNCHANGED <<users, songs, playlists, nPl>>

EditReadUser(r) ==
  /\ req[r].op = "edit" /\ req[r].pc = "readUser"
  /\ LET q == [req[r] EXCEPT !.user = FindUserId(req[r].caller)]
     IN  req' = [req EXCEPT ![r] =
           IF ~q.user.exists THEN Respond(q, 500, "TypeError")
           ELSE IF ~Owns(q.user, q.caller, q.playList)
                THEN Respond(q, 403, "User don't have access to edit")
           ELSE [q EXCEPT !.pc = "save"]]
  /\ UNCHANGED <<users, songs, playlists, nPl, started>>

EditSave(r) ==
  /\ req[r].op = "edit" /\ req[r].pc = "save"
  /\ LET p == req[r].pid
     IN  IF playlists[p].exists
         THEN /\ playlists' = [playlists EXCEPT ![p] =
                   SaveFields(playlists[p], req[r].playList, req[r].body)]
              /\ req' = [req EXCEPT ![r] = Respond(req[r], 200, "Update successfully")]
         ELSE /\ playlists' = playlists
              /\ req' = [req EXCEPT ![r] = Respond(req[r], 500, "DocumentNotFoundError")]
  /\ UNCHANGED <<users, songs, nPl, started>>

\* ---- PUT /api/playlists/add-song and /remove-song: lines shared by both
SongStart(r, op, caller, pid, sid) ==
  /\ CanStart(r)
  /\ started' = started + 1
  /\ LET q == [Begin(r, op, caller) EXCEPT !.pid = pid, !.sid = sid]
     IN  req' = [req EXCEPT ![r] =
           IF ~auth(caller) THEN Respond(q, 401, "Access denied")
           ELSE IF sid = NoVal THEN Respond(q, 400, "songId is required")
           ELSE [q EXCEPT !.pc = "readPlaylist", !.user = FindUserId(caller)]]
  /\ UNCHANGED <<users, songs, playlists, nPl>>

SongReadPlaylist(r, op, denied) ==
  /\ req[r].op = op /\ req[r].pc = "readPlaylist"
  /\ LET q == [req[r] EXCEPT !.playList = playlists[req[r].pid]]
     IN  req' = [req EXCEPT ![r] =
           IF ~q.user.exists \/ ~q.playList.exists THEN Respond(q, 500, "TypeError")
           ELSE IF ~Owns(q.user, q.caller, q.playList) THEN Respond(q, 403, denied)
           ELSE [q EXCEPT !.pc = "save"]]
  /\ UNCHANGED <<users, songs, playlists, nPl, started>>

\* ---- PUT /api/playlists/add-song
AddSongStart(r, caller, pid, sid) == SongStart(r, "add", caller, pid, sid)

AddSongReadPlaylist(r) == SongReadPlaylist(r, "add", "User don't have access to add")

AlwaysPush(arr, sid) == TRUE

\* line 272: the song is appended only when the local array does not hold it
ShouldPush(arr, sid) == IndexOf(arr, sid) = -1

\* the requests that have read the songs of playlist p and not yet saved them
ReadNotSaved(r, p) ==
  {req[q].no : q \in {s \in Slots : s # r /\ req[s].op \in {"add", "remove"}
                                    /\ req[s].pc = "save" /\ req[s].pid = p}}

AddSongSave(r) ==
  /\ req[r].op = "add" /\ req[r].pc = "save"
  /\ LET p == req[r].pid
         q == [req[r] EXCEPT !.overlapped = ReadNotSaved(r, p)]
     IN  IF playlists[p].exists
         THEN /\ playlists' = [playlists EXCEPT ![p] =
                   IF ShouldPush(req[r].playList.songs, req[r].sid)
                   THEN SavePush(playlists[p], "songs", req[r].sid)
                   ELSE playlists[p]]
              /\ req' = [req EXCEPT ![r] = Respond(q, 200, "Added to play list")]
         ELSE /\ playlists' = playlists
              /\ req' = [req EXCEPT ![r] = Respond(q, 500, "DocumentNotFoundError")]
  /\ UNCHANGED <<users, songs, nPl, started>>

\* ---- PUT /api/playlists/remove-song
\* the local array after lines 326-327
RemovedSongs(arr, sid) == Splice(arr, IndexOf(arr, sid), 1)

RemoveSongStart(r, caller, pid, sid) == SongStart(r, "remove", caller, pid, sid)

RemoveSongReadPlaylist(r) ==
  SongReadPlaylist(r, "remove", "User don't have access to remove")

RemoveSongSave(r) ==
  /\ req[r].op = "remove" /\ req[r].pc = "save"
  /\ LET p == req[r].pid
         q == [req[r] EXCEPT !.overlapped = ReadNotSaved(r, p)]
     IN  IF SaveArrayMatches(playlists[p], req[r].playList)
         THEN /\ playlists' = [playlists EXCEPT ![p] =
                   SaveArray(playlists[p], "songs",
                             RemovedSongs(req[r].playList.songs, req[r].sid))]
              /\ req' = [req EXCEPT ![r] = Respond(q, 200, "Remove from playlist")]
         ELSE /\ playlists' = playlists
              /\ req' = [req EXCEPT ![r] = Respond(q, 500, "VersionError")]
  /\ UNCHANGED <<users, songs, nPl, started>>

\* ---- GET /api/playlists/:id
GetStart(r, caller, pid) ==
  /\ CanStart(r)
  /\ started' = started + 1
  /\ LET q == [Begin(r, "get", caller) EXCEPT !.pid = pid]
     IN  req' = [req EXCEPT ![r] =
           IF ~auth(caller) THEN Respond(q, 401, "Access denied")
           ELSE IF ~playlists[pid].exists THEN Respond(q, 400, "not found")
           ELSE [q EXCEPT !.pc = "findSongs", !.playList = playlists[pid]]]
  /\ UNCHANGED <<users, songs, playlists, nPl>>

Unresolved(ids) == Range(ids)

\* Song.find({ _id: playlist.songs }): the songs of the catalog with these ids
Resolved(ids) == Catalog \cap Range(ids)

GetFindSongs(r) ==
  /\ req[r].op = "get" /\ req[r].pc = "findSongs"
  /\ req' = [req EXCEPT ![r] =
       [Respond(req[r], 200, "") EXCEPT !.data = Resolved(req[r].playList.songs)]]
  /\ UNCHANGED <<users, songs, playlists, nPl, started>>

\* ---- DELETE /api/playlists/:id
\* the local user.playList after lines 498-499
RemovedPlaylists(arr, pid) == Splice(arr, IndexOf(arr, pid), 1)

DeleteStart(r, caller, pid) ==
  /\ CanStart(r)
  /\ started' = started + 1
  /\ LET q == [Begin(r, "delete", caller) EXCEPT !.pid = pid]
     IN  req' = [req EXCEPT ![r] =
           IF ~auth(caller) THEN Respond(q, 401, "Access denied")
           ELSE [q EXCEPT !.pc = "readPlaylist", !.user = FindUser(caller)]]
  /\ UNCHANGED <<users, songs, playlists, nPl>>

DeleteReadPlaylist(r) ==
  /\ req[r].op = "delete" /\ req[r].pc = "readPlaylist"
  /\ LET q == [req[r] EXCEPT !.playList = playlists[req[r].pid]]
     IN  req' = [req EXCEPT ![r] =
           IF ~q.user.exists \/ ~q.playList.exists THEN Respond(q, 500, "TypeError")
           ELSE IF ~Owns(q.user, q.caller, q.playList)
                THEN Respond(q, 403, "User don't have access to delete")
           ELSE [q EXCEPT !.pc = "saveUser"]]
  /\ UNCHANGED <<users, songs, playlists, nPl, started>>

\* line 500 rejects: the handler stops there, line 501 is not reached
DeleteSaveUserFailed(q) == Respond(q, 500, "VersionError")

DeleteSaveUser(r) ==
  /\ req[r].op = "delete" /\ req[r].pc = "saveUser"
  /\ LET u == req[r].caller
     IN  IF SaveArrayMatches(users[u], req[r].user)
         THEN /\ users' = [users EXCEPT ![u] =
                   SaveArray(users[u], "playList",
                             RemovedPlaylists(req[r].user.playList, req[r].pid))]
              /\ req' = [req EXCEPT ![r].pc = "deleteOne"]
         ELSE /\ users' = users
              /\ req' = [req EXCEPT ![r] = DeleteSaveUserFailed(req[r])]
  /\ UNCHANGED <<songs, playlists, nPl, started>>

KeptDocument(doc) == doc

\* playlist.deleteOne(): the document is gone
DeletedDocument(doc) == NoPlaylistDoc

DeleteOne(r) ==
  /\ req[r].op = "delete" /\ req[r].pc = "deleteOne"
  /\ playlists' = [playlists EXCEPT ![req[r].pid] = DeletedDocument(playlists[req[r].pid])]
  /\ req' = [req EXCEPT ![r] = Respond(req[r], 200, "Remove from libary")]
  /\ UNCHANGED <<users, songs, nPl, started>>

\* ---- PUT /api/songs/like/:id
LikeStart(r, caller, sid) ==
  /\ CanStart(r)
  /\ started' = started + 1
  /\ LET q == [Begin(r, "like", caller) EXCEPT !.sid = sid]
     IN  req' = [req EXCEPT ![r] =
           IF ~auth(caller) THEN Respond(q, 401, "Access denied")
           ELSE IF sid \notin Catalog THEN Respond(q, 400, "song dose not exit")
           ELSE [q EXCEPT !.pc = "readUser"]]
  /\ UNCHANGED <<users, songs, playlists, nPl>>

LikeReadUser(r) ==
  /\ req[r].op = "like" /\ req[r].pc = "readUser"
  /\ LET q == [req[r] EXCEPT !.user = FindUser(req[r].caller)]
     IN  req' = [req EXCEPT ![r] =
           IF ~q.user.exists THEN Respond(q, 500, "TypeError")
           ELSE [q EXCEPT !.pc = "save"]]
  /\ UNCHANGED <<users, songs, playlists, nPl, started>>

LikeSave(r) ==
  /\ req[r].op = "like" /\ req[r].pc = "save"
  /\ LET u == req[r].caller
         liked == req[r].user.likedSongs
         index == IndexOf(liked, req[r].sid)
     IN  IF index = -1
         THEN IF users[u].exists
              THEN /\ users' = [users EXCEPT ![u] =
                        SavePush(users[u], "likedSongs", req[r].sid)]
                   /\ req' = [req EXCEPT ![r] =
                        Respond(req[r], 200, "Added to your liked song")]
              ELSE /\ users' = users
                   /\ req' = [req EXCEPT ![r] =
                        Respond(req[r], 500, "DocumentNotFoundError")]
         ELSE IF SaveArrayMatches(users[u], req[r].user)
              THEN /\ users' = [users EXCEPT ![u] =
                        SaveArray(users[u], "likedSongs", Splice(liked, index, 1))]
                   /\ req' = [req EXCEPT ![r] =
                        Respond(req[r], 200, "Remove from your liked song")]
              ELSE /\ users' = users
                   /\ req' = [req EXCEPT ![r] = Respond(req[r], 500, "VersionError")]
  /\ UNCHANGED <<songs, playlists, nPl, started>>

\* ---- DELETE /api/users/:id
DeleteUser(r, caller, uid) ==
  /\ CanStart(r)
  /\ started' = started + 1
  /\ LET q == [Begin(r, "deleteUser", caller) EXCEPT !.uid = uid]
     IN  IF ~auth(caller)
         THEN /\ users' = users
              /\ req' = [req EXCEPT ![r] = Respond(q, 401, "Access denied")]
         ELSE IF ~authAdmin(caller)
         THEN /\ users' = users
              /\ req' = [req EXCEPT ![r] = Respond(q, 403, "Access denied")]
         ELSE /\ users' = [users EXCEPT ![uid] = NoUserDoc]
              /\ req' = [req EXCEPT ![r] = Respond(q, 200, "Successfully deleted user")]
  /\ UNCHANGED <<songs, playlists, nPl>>

\* ---- POST /api/songs, PUT /api/songs/:id, DELETE /api/songs/:id
\* request bodies of the song routes: with a name, and without one
SongBodies == {[name |-> "Rock"], [name |-> NoVal]}

\* validate of models/song: the name is required
ValidSong(body) == body.name # NoVal

\* the ObjectId the driver gives the next document of a collection
NextId(order, coll) ==
  order[CHOOSE i \in 1..Len(order) :
          ~coll[order[i]].exists /\ \A j \in 1..(i - 1) : coll[order[j]].exists]

HasNextId(order, coll) == \E i \in 1..Len(order) : ~coll[order[i]].exists

CreateSong(r, caller, body) ==
  /\ CanStart(r)
  /\ (auth(caller) /\ authAdmin(caller) /\ ValidSong(body)) => HasNextId(SongOrder, songs)
  /\ started' = started + 1
  /\ LET id == NextId(SongOrder, songs)
         q == [Begin(r, "createSong", caller) EXCEPT !.body = body]
     IN  IF ~auth(caller)
         THEN /\ songs' = songs
              /\ req' = [req EXCEPT ![r] = Respond(q, 401, "Access denied")]
         ELSE IF ~authAdmin(caller)
         THEN /\ songs' = songs
              /\ req' = [req EXCEPT ![r] = Respond(q, 403, "Access denied")]
         ELSE IF ~ValidSong(body)
         THEN /\ songs' = songs
              /\ req' = [req EXCEPT ![r] = Respond(q, 200, "name is required")]
         ELSE /\ songs' = [songs EXCEPT ![id] = [exists |-> TRUE, name |-> body.name]]
              /\ req' = [req EXCEPT ![r] =
                   Respond([q EXCEPT !.sid = id], 200, "Song cerated successfully")]
  /\ UNCHANGED <<users, playlists, nPl>>

\* findByIdAndUpdate(id, body): the fields of the body that are defined are set
UpdatedSong(doc, body) ==
  IF doc.exists /\ body.name # NoVal THEN [doc EXCEPT !.name = body.name] ELSE doc

UpdateSong(r, caller, sid, body) ==
  /\ CanStart(r)
  /\ started' = started + 1
  /\ LET q == [Begin(r, "updateSong", caller) EXCEPT !.sid = sid, !.body = body]
     IN  IF ~auth(caller)
         THEN /\ songs' = songs
              /\ req' = [req EXCEPT ![r] = Respond(q, 401, "Access denied")]
         ELSE IF ~authAdmin(caller)
         THEN /\ songs' = songs
              /\ req' = [req EXCEPT ![r] = Respond(q, 403, "Access denied")]
         ELSE /\ songs' = [songs EXCEPT ![sid] = UpdatedSong(songs[sid], body)]
              /\ req' = [req EXCEPT ![r] = Respond(q, 200, "Update song successfully")]
  /\ UNCHANGED <<users, playlists, nPl>>

DeleteSong(r, caller, sid) ==
  /\ CanStart(r)
  /\ started' = started + 1
  /\ LET q == [Begin(r, "deleteSong", caller) EXCEPT !.sid = sid]
     IN  IF ~auth(caller)
         THEN /\ songs' = songs
              /\ req' = [req EXCEPT ![r] = Respond(q, 401, "Access denied")]
         ELSE IF ~authAdmin(caller)
         THEN /\ songs' = songs
              /\ req' = [req EXCEPT ![r] = Respond(q, 403, "Access denied")]
         ELSE /\ songs' = [songs EXCEPT ![sid] = NoSongDoc]
              /\ req' = [req EXCEPT ![r] = Respond(q, 200, "Song deleted successfully")]
  /\ UNCHANGED <<users, playlists, nPl>>

\* ---- POST /api/users
\* request bodies: a registered email, a new email, and one without a password
UserBodies ==
  { [email |-> "e1", password |-> "pw"],
    [email |-> "e3", password |-> "pw"],
    [email |-> "e1", password |-> NoVal] }

\* validate of models/user: email and password are required
ValidUser(body) == body.email # NoVal /\ body.password # NoVal

NoSuchEmail(email) == NoUserDoc

\* User.findOne({ email }): a document with that email, or null
FindOneByEmail(email) ==
  IF \E u \in AllUserIds : users[u].exists /\ users[u].email = email
  THEN users[CHOOSE u \in AllUserIds : users[u].exists /\ users[u].email = email]
  ELSE NoUserDoc

PendingUsers ==
  Cardinality({r \in Slots : req[r].op = "createUser" /\ req[r].pc = "insertUser"})

FreeUserIds == Cardinality({i \in 1..Len(UserOrder) : ~users[UserOrder[i]].exists})

CreateUserStart(r, body) ==
  /\ CanStart(r)
  /\ (ValidUser(body) /\ ~FindOneByEmail(body.email).exists)
       => PendingUsers < FreeUserIds
  /\ started' = started + 1
  /\ LET q == [Begin(r, "createUser", NoUser) EXCEPT !.body = body]
     IN  req' = [req EXCEPT ![r] =
           IF ~ValidUser(body) THEN Respond(q, 400, "invalid user")
           ELSE IF FindOneByEmail(body.email).exists
                THEN Respond(q, 403, "User with given email already exists!!")
           ELSE [q EXCEPT !.pc = "insertUser"]]
  /\ UNCHANGED <<users, songs, playlists, nPl>>

CreateUserSave(r) ==
  /\ req[r].op = "createUser" /\ req[r].pc = "insertUser"
  /\ LET id == NextId(UserOrder, users)
     IN  /\ users' = [users EXCEPT ![id] =
               [exists |-> TRUE, email |-> req[r].body.email, likedSongs |-> <<>>,
                playList |-> <<>>, v |-> 0]]
         /\ req' = [req EXCEPT ![r] =
               Respond([req[r] EXCEPT !.uid = id], 200, "Account created successfully")]
  /\ UNCHANGED <<songs, playlists, nPl, started>>

\* ---- PUT /api/users/:id
\* request bodies: a new email, and an emptied playlist list
UpdateBodies == {[email |-> "e9"], [playList |-> <<>>]}

\* findByIdAndUpdate(id, { $set: body }): the fields of the body are set
SetFields(doc, body) ==
  [f \in DOMAIN doc |-> IF f \in DOMAIN body THEN body[f] ELSE doc[f]]

UpdateUser(r, caller, uid, body) ==
  /\ CanStart(r)
  /\ started' = started + 1
  /\ LET q == [Begin(r, "updateUser", caller) EXCEPT !.uid = uid, !.body = body]
     IN  IF ~auth(caller)
         THEN /\ users' = users
              /\ req' = [req EXCEPT ![r] = Respond(q, 401, "Access denied")]
         ELSE /\ users' = [users EXCEPT ![uid] =
                   IF users[uid].exists THEN SetFields(users[uid], body) ELSE users[uid]]
              /\ req' = [req EXCEPT ![r] = Respond(q, 200, "")]
  /\ UNCHANGED <<songs, playlists, nPl>>

\* ---- GET /api/search?search=
Queries == {"", "lo", "b", "."}

\* the characters of the names and queries of the model
Letters(s) ==
  CASE s = "" -> <<>>
    [] s = "lo" -> <<"l", "o">>
    [] s = "b" -> <<"b">>
    [] s = "." -> <<".">>
    [] s = "A" -> <<"A">>
    [] s = "B" -> <<"B">>
    [] s = "Lofi" -> <<"L", "o", "f", "i">>
    [] s = "Rock" -> <<"R", "o", "c", "k">>

\* $options: "i"
Lower(c) ==
  CASE c = "A" -> "a" [] c = "B" -> "b" [] c = "L" -> "l" [] c = "R" -> "r"
    [] OTHER -> c

\* { $regex: query, $options: "i" }: the query is a regular expression, where a
\* dot stands for any character; it matches anywhere in the name
RegexMatches(query, name) ==
  LET p == Letters(query)
      t == Letters(name)
  IN  \E k \in 0..(Len(t) - Len(p)) :
        \A i \in 1..Len(p) : p[i] = "." \/ Lower(p[i]) = Lower(t[k + i])

\* .limit(10)
SearchLimit == 10

\* the collections in natural order
SongNatural == <<"s1", "s2", "s3", "s4">>

\* find(...).limit(n): the first n of the matching documents
Limit(order, matching, n) ==
  {order[i] : i \in {k \in 1..Len(order) :
      /\ order[k] \in matching
      /\ Cardinality({j \in 1..k : order[j] \in matching}) <= n}}

SearchStart(r, caller, query) ==
  /\ CanStart(r)
  /\ started' = started + 1
  /\ LET q == [Begin(r, "search", caller) EXCEPT !.body = [search |-> query]]
     IN  req' = [req EXCEPT ![r] =
           IF ~auth(caller) THEN Respond(q, 401, "Access denied")
           ELSE IF query # ""
           THEN [q EXCEPT !.pc = "findPlaylists",
                          !.data = Limit(SongNatural,
                                         {s \in Catalog : RegexMatches(query, songs[s].name)},
                                         SearchLimit)]
           ELSE Respond(q, 200, "")]
  /\ UNCHANGED <<users, songs, playlists, nPl>>

SearchFindPlaylists(r) ==
  /\ req[r].op = "search" /\ req[r].pc = "findPlaylists"
  /\ req' = [req EXCEPT ![r] =
       [Respond(req[r], 200, "") EXCEPT !.found =
          Limit(PlaylistOrder,
                {p \in PlaylistIds : playlists[p].exists
                                     /\ RegexMatches(req[r].body.search, playlists[p].name)},
                SearchLimit)]]
  /\ UNCHANGED <<users, songs, playlists, nPl, started>>

\* ---- the stored state a behaviour starts from
\* The collections outlive the process: a behaviour starts from a database that
\* earlier requests left.  Two registered users (u2 is the admin), two songs in
\* the catalog, and playlist p1 that u1 created.
Seed(songList, liked) ==
  /\ users = [u \in AllUserIds |->
       IF u \in UserIds
       THEN [exists |-> TRUE,
             email |-> IF u = "u1" THEN "e1" ELSE "e2",
             likedSongs |-> IF u = "u1" THEN liked ELSE <<>>,
             playList |-> IF u = "u1" THEN <<"p1">> ELSE <<>>,
             v |-> 0]
       ELSE NoUserDoc]
  /\ songs = [s \in AllSongIds |->
       IF s = "s1" THEN [exists |-> TRUE, name |-> "Lofi"]
       ELSE IF s = "s2" THEN [exists |-> TRUE, name |-> "Rock"]
       ELSE NoSongDoc]
  /\ playlists = [p \in PlaylistIds |->
       IF p = "p1"
       THEN [exists |-> TRUE, user |-> "u1", name |-> "A", desc |-> "d",
             img |-> "i", songs |-> songList, v |-> 0]
       ELSE NoPlaylistDoc]
  /\ nPl = 1
  /\ req = [r \in Slots |-> IdleReq]
  /\ started = 0

Init == Seed(<<"s1">>, <<>>)

Start(r) ==
  \/ \E c \in Callers, b \in Bodies : CreateStart(r, c, b)
  \/ \E c \in Callers, p \in PlaylistIds, b \in Bodies : EditStart(r, c, p, b)
  \/ \E c \in Callers, p \in PlaylistIds, s \in SongIds \cup {NoVal} : AddSongStart(r, c, p, s)
  \/ \E c \in Callers, p \in PlaylistIds, s \in SongIds \cup {NoVal} : RemoveSongStart(r, c, p, s)
  \/ \E c \in Callers, p \in PlaylistIds : GetStart(r, c, p)
  \/ \E c \in Callers, p \in PlaylistIds : DeleteStart(r, c, p)
  \/ \E c \in Callers, s \in SongIds : LikeStart(r, c, s)
  \/ \E c \in Callers, u \in UserIds : DeleteUser(r, c, u)

Step(r) ==
  \/ CreateInsert(r)
  \/ CreateSaveUser(r)
  \/ EditReadUser(r)
  \/ EditSave(r)
  \/ AddSongReadPlaylist(r)
  \/ AddSongSave(r)
  \/ RemoveSongReadPlaylist(r)
  \/ RemoveSongSave(r)
  \/ GetFindSongs(r)
  \/ DeleteReadPlaylist(r)
  \/ DeleteSaveUser(r)
  \/ DeleteOne(r)
  \/ LikeReadUser(r)
  \/ LikeSave(r)

\* requests arrive at any time: up to two are in flight together
Next == \E r \in Slots : Start(r) \/ Step(r)

Spec == Init /\ [][Next]_vars

\* ---- one request at a time: a client that awaits each response before the next call
\* The stored lists it starts from include the ones with a repeated id, which
\* Spec reaches (CounterC4, CounterC5).
SeqInit == Seed(<<"s1">>, <<>>) \/ Seed(<<"s1", "s1">>, <<"s1", "s1">>)

SeqNext == \E r \in Slots : ((\A q \in Slots : Free(q)) /\ Start(r)) \/ Step(r)

SeqSpec == SeqInit /\ [][SeqNext]_vars

\* ---- one request at a time, over every route
StartAdmin(r) ==
  \/ \E c \in Callers, b \in SongBodies : CreateSong(r, c, b)
  \/ \E c \in Callers, s \in SongIds, b \in SongBodies : UpdateSong(r, c, s, b)
  \/ \E c \in Callers, s \in SongIds : DeleteSong(r, c, s)
  \/ \E b \in UserBodies : CreateUserStart(r, b)
  \/ \E c \in Callers, u \in UserIds, b \in UpdateBodies : UpdateUser(r, c, u, b)
  \/ \E c \in Callers, s \in Queries : SearchStart(r, c, s)

StepAdmin(r) ==
  \/ CreateUserSave(r)
  \/ SearchFindPlaylists(r)

FullNext ==
  \E r \in Slots :
    \/ (\A q \in Slots : Free(q)) /\ (Start(r) \/ StartAdmin(r))
    \/ Step(r)
    \/ StepAdmin(r)

FullSpec == Init /\ [][FullNext]_vars

\* ---- steps of a request, for the properties below
\* this step starts the request of slot r
Starts(r) == req'[r].no # req[r].no

\* this step sends the response of the request of slot r
Completes(r) == req'[r].pc = "done" /\ (req[r].pc # "done" \/ Starts(r))

\* this step belongs to the request of slot r
StepOf(r) == req'[r] # req[r]

\* q holds the call that came right before the call of r
Previous(q, r) == q # r /\ req[q].pc = "done" /\ req[q].no + 1 = req'[r].no

SongsOf(p) == Range(playlists[p].songs)

\* what of a playlist its owner can change: metadata, song list, existence
Content(doc) == <<doc.exists, doc.user, doc.name, doc.desc, doc.img, doc.songs>>

PlaylistRoutes == {"edit", "add", "remove", "delete"}

\* caller c is a registered user and playlist p exists and belongs to someone else
NonOwner(c, p) ==
  /\ c \in UserIds /\ users[c].exists
  /\ p \in PlaylistIds /\ playlists[p].exists /\ playlists[p].user # c

\* caller c is a registered user and playlist p exists and is c's
Owner(c, p) ==
  /\ c \in UserIds /\ users[c].exists
  /\ p \in PlaylistIds /\ playlists[p].exists /\ playlists[p].user = c

\* ---- C1
\* C1: removeSongFromPlaylist(u,p,s) by the owner u of p, when s is not in
\* p.songIds, leaves p.songIds exactly as it was and reports success, whatever
\* the list holds.
CounterC1 ==
  [][\A r \in Slots :
       (/\ req[r].op = "remove" /\ req[r].pc = "save" /\ Completes(r)
        /\ Owner(req[r].caller, req[r].pid)
        /\ req[r].sid \notin SongsOf(req[r].pid))
       => /\ playlists'[req[r].pid].songs = playlists[req[r].pid].songs
          /\ req'[r].status = 200]_vars

\* ---- C2
\* C2: a playlist's name, description, image and song list change, and the
\* playlist is deleted, only by a step of an edit/add-song/remove-song/delete
\* request whose authenticated user is the playlist's owner; such a request of
\* another registered user, on reaching the ownership check, ends 403 Forbidden,
\* and no step of it changes a playlist or a user document.
OnlyOwnerMutates ==
  [][/\ \A p \in PlaylistIds :
          (playlists[p].exists /\ Content(playlists'[p]) # Content(playlists[p]))
          => \E r \in Slots :
               /\ StepOf(r) /\ req[r].op \in PlaylistRoutes
               /\ req[r].pid = p /\ req[r].caller = playlists[p].user
     /\ \A r \in Slots :
          (/\ StepOf(r) /\ req'[r].op \in PlaylistRoutes
           /\ NonOwner(req'[r].caller, req'[r].pid))
          => /\ playlists' = playlists /\ users' = users
             /\ (req[r].pc \in {"readUser", "readPlaylist"}
                   => req'[r].pc = "done" /\ req'[r].status = 403)]_vars

\* a non-owner was refused and the owner's removal went through
WitnessC2 ==
  \E r, q \in Slots :
    /\ req[r].pc = "done" /\ req[r].op = "delete" /\ req[r].status = 403
    /\ req[r].caller = "u2" /\ req[r].pid = "p1"
    /\ req[q].pc = "done" /\ req[q].op = "remove" /\ req[q].status = 200
    /\ req[q].caller = "u1" /\ req[q].pid = "p1"
    /\ playlists["p1"].exists /\ playlists["p1"].songs = <<>>

CounterC4 == \A p \in PlaylistIds : NoDup(playlists[p].songs)

\* ---- C5
\* C5: in every reachable state, under any interleaving of toggleLike requests,
\* User.likedSongs contains each song id at most once.
CounterC5 == \A u \in UserIds : NoDup(users[u].likedSongs)

\* ---- C6
\* C6: two consecutive toggleLike(u,s) calls return the membership of s in
\* u.likedSongs to its original value: each call reports the branch it took
\* (added when s was absent, removed when present), the second call reports the
\* other branch and leaves s as it was before the first, and the membership of
\* every other song is unchanged.
CounterC6 ==
  [][\A r \in Slots :
       (req[r].op = "like" /\ req[r].pc = "save" /\ Completes(r)
        /\ req'[r].status = 200)
       => LET u == req[r].caller
              s == req[r].sid
              before == Range(users[u].likedSongs)
              after == Range(users'[u].likedSongs)
          IN  /\ req'[r].message = IF s \in before
                                   THEN "Remove from your liked song"
                                   ELSE "Added to your liked song"
              /\ before \ {s} = after \ {s}
              /\ \A q \in Slots :
                   (/\ Previous(q, r) /\ req[q].op = "like" /\ req[q].status = 200
                    /\ req[q].caller = u /\ req[q].sid = s)
                   => /\ req'[r].message # req[q].message
                      /\ (s \in after) <=>
                           (req[q].message = "Remove from your liked song")]_vars

\* ---- C7
\* C7: for a playlist p owned by u and a song id s, calling
\* addSongToPlaylist(u,p,s) again right after it succeeded leaves p.songIds as
\* the first call left it, and every call reports success.
AddSongIdempotent ==
  [][\A r \in Slots :
       (Completes(r) /\ req'[r].op = "add" /\ req'[r].sid \in SongIds
        /\ Owner(req'[r].caller, req'[r].pid))
       => /\ req'[r].status = 200
          /\ \A q \in Slots :
               (/\ Previous(q, r) /\ req[q].op = "add" /\ req[q].status = 200
                /\ req[q].caller = req'[r].caller /\ req[q].pid = req'[r].pid
                /\ req[q].sid = req'[r].sid)
               => playlists' = playlists]_vars

\* the same add was made twice in a row and the song is there once
WitnessC7 ==
  \E r, q \in Slots :
    /\ r # q /\ req[r].pc = "done" /\ req[q].pc = "done"
    /\ req[q].no + 1 = req[r].no
    /\ req[r].op = "add" /\ req[q].op = "add"
    /\ req[r].status = 200 /\ req[q].status = 200
    /\ req[r].caller = "u1" /\ req[q].caller = "u1"
    /\ req[r].pid = "p1" /\ req[q].pid = "p1"
    /\ req[r].sid = "s2" /\ req[q].sid = "s2"
    /\ playlists["p1"].songs = <<"s1", "s2">>

CounterC9 ==
  [][\A r \in Slots :
       (req[r].op = "delete" /\ req[r].pc = "saveUser" /\ StepOf(r))
       => req'[r].pc = "deleteOne"]_vars

\* ---- C10
\* C10: when addSongToPlaylist(u,p,a) and removeSongFromPlaylist(u,p,b), a # b,
\* run concurrently on the same playlist, both reading p before either writes,
\* then after both complete a is in p.songIds and b is not.  Stated for the
\* case where both calls have work to do: the list they read holds b and not a.
CounterC10 ==
  [][\A r, q \in Slots :
       LET a == IF req[r].op = "add" THEN req[r].sid ELSE req[q].sid
           b == IF req[r].op = "add" THEN req[q].sid ELSE req[r].sid
           read == Range(req[r].playList.songs)
           after == Range(playlists'[req[r].pid].songs)
       IN  (/\ r # q /\ req[q].pc = "done" /\ req[q].status = 200
            /\ req[r].pc = "save" /\ Completes(r)
            /\ {req[q].op, req[r].op} = {"add", "remove"}
            /\ req[q].pid = req[r].pid /\ a # b
            /\ req[r].no \in req[q].overlapped
            /\ a \notin read /\ b \in read)
           => a \in after /\ b \notin after]_vars

\* ---- C11
AdminRoutes == {"createSong", "updateSong", "deleteSong", "deleteUser"}

\* C11: a song record is created, updated or deleted, and a user record is
\* deleted, only by a request whose identity has the admin role; the same
\* request of a regular user ends 403 Forbidden and changes no store.
OnlyAdminsMutateCatalog ==
  [][/\ songs' # songs
          => \E r \in Slots :
               /\ StepOf(r) /\ req'[r].caller \in Admins
               /\ req'[r].op \in {"createSong", "updateSong", "deleteSong"}
     /\ \A u \in AllUserIds :
          (users[u].exists /\ ~users'[u].exists)
          => \E r \in Slots :
               /\ StepOf(r) /\ req'[r].caller \in Admins
               /\ req'[r].op = "deleteUser" /\ req'[r].uid = u
     /\ \A r \in Slots :
          (/\ Starts(r) /\ req'[r].op \in AdminRoutes
           /\ req'[r].caller \in UserIds \ Admins)
          => /\ req'[r].pc = "done" /\ req'[r].status = 403
             /\ users' = users /\ songs' = songs /\ playlists' = playlists]_vars

\* a regular user's deletion of s1 was refused, the admin's went through
WitnessC11 ==
  \E r, q \in Slots :
    /\ req[q].pc = "done" /\ req[q].op = "deleteSong" /\ req[q].status = 403
    /\ req[q].caller = "u1" /\ req[q].sid = "s1"
    /\ req[r].pc = "done" /\ req[r].op = "deleteSong" /\ req[r].status = 200
    /\ req[r].caller = "u2" /\ req[r].sid = "s1"
    /\ req[q].no < req[r].no /\ ~songs["s1"].exists

\* ---- C12
\* C12: creating a user, with well-formed fields, whose email is already in
\* the user store ends 403 and leaves the user store unchanged, so no second
\* record with that email exists afterwards.
DuplicateEmailRefused ==
  [][\A r \in Slots :
       (/\ Starts(r) /\ req'[r].op = "createUser"
        /\ req'[r].body.password # NoVal
        /\ \E u \in AllUserIds :
             users[u].exists /\ users[u].email = req'[r].body.email)
       => /\ req'[r].pc = "done" /\ req'[r].status = 403
          /\ users' = users]_vars

\* a new email was registered, and the same email was then refused
WitnessC12 ==
  \E r, q \in Slots :
    /\ req[q].pc = "done" /\ req[q].op = "createUser" /\ req[q].status = 200
    /\ req[q].body.email = "e3" /\ req[q].uid = "u3"
    /\ req[r].pc = "done" /\ req[r].op = "createUser" /\ req[r].status = 403
    /\ req[r].body.email = "e3" /\ req[q].no < req[r].no
    /\ Cardinality({u \in AllUserIds : users[u].exists /\ users[u].email = "e3"}) = 1

\* ---- C13
\* C13: add-song by an authenticated caller with a playListId that refers to
\* no playlist, or a songId that refers to no song, responds 404 and leaves
\* every playlist's song list unchanged.
CounterC13 ==
  [][\A r \in Slots :
       (/\ Completes(r) /\ req'[r].op = "add" /\ auth(req'[r].caller)
        /\ req'[r].sid \in SongIds
        /\ (~playlists[req'[r].pid].exists \/ ~songs[req'[r].sid].exists))
       => /\ req'[r].status = 404
          /\ \A p \in PlaylistIds : playlists'[p].songs = playlists[p].songs]_vars

\* ---- C14
\* C14: a createPlaylist request with a missing or empty name ends 400 and
\* changes neither store; otherwise the insert creates exactly one playlist,
\* owned by the caller, with the submitted name and an empty song list, and the
\* step that answers 200 appends that playlist's id to the caller's playlist
\* list and changes nothing else.
CreatesOnePlaylist ==
  [][\A r \in Slots :
       /\ (/\ Starts(r) /\ req'[r].op = "create" /\ auth(req'[r].caller)
           /\ req'[r].body.name \in {NoVal, ""})
          => /\ req'[r].pc = "done" /\ req'[r].status = 400
             /\ users' = users /\ playlists' = playlists
       /\ (req[r].op = "create" /\ req[r].pc = "insert" /\ StepOf(r))
          => \E p \in PlaylistIds :
               /\ ~playlists[p].exists /\ playlists'[p].exists
               /\ playlists'[p].user = req[r].caller
               /\ playlists'[p].name = req[r].body.name
               /\ playlists'[p].songs = <<>>
               /\ \A o \in PlaylistIds \ {p} : playlists'[o] = playlists[o]
               /\ users' = users
               /\ req'[r].pid = p /\ req'[r].pc = "saveUser"
       /\ (Completes(r) /\ req'[r].op = "create" /\ req'[r].status = 200)
          => /\ req[r].pc = "saveUser"
             /\ users'[req[r].caller].playList =
                  Append(users[req[r].caller].playList, req[r].pid)
             /\ \A u \in AllUserIds \ {req[r].caller} : users'[u] = users[u]
             /\ playlists' = playlists]_vars

\* u1 created p2, and a creation without a name was refused
WitnessC14 ==
  \E r, q \in Slots :
    /\ req[q].pc = "done" /\ req[q].op = "create" /\ req[q].status = 200
    /\ req[q].caller = "u1" /\ req[q].pid = "p2"
    /\ playlists["p2"].exists /\ playlists["p2"].user = "u1"
    /\ playlists["p2"].songs = <<>>
    /\ users["u1"].playList = <<"p1", "p2">>
    /\ req[r].pc = "done" /\ req[r].op = "create" /\ req[r].status = 400
    /\ req[r].caller = "u1" /\ req[r].body.name = NoVal

\* ---- C15
\* the text holds the query, letter for letter, whatever the case
Contains(query, name) ==
  LET p == Letters(query)
      t == Letters(name)
  IN  \E k \in 0..(Len(t) - Len(p)) :
        \A i \in 1..Len(p) : Lower(p[i]) = Lower(t[k + i])

\* C15: a search with an empty query answers 200 with an empty result; with a
\* non-empty query each of the two lists has at most 10 entries and holds only
\* records whose name contains the query, whatever the case of the letters.
CounterC15 ==
  [][\A r \in Slots :
       (Completes(r) /\ req'[r].op = "search" /\ auth(req'[r].caller))
       => LET query == req'[r].body.search
          IN  /\ req'[r].status = 200
              /\ query = "" => req'[r].data = {} /\ req'[r].found = {}
              /\ query # "" =>
                   /\ Cardinality(req'[r].data) <= 10
                   /\ Cardinality(req'[r].found) <= 10
                   /\ \A s \in req'[r].data : Contains(query, songs[s].name)
                   /\ \A p \in req'[r].found : Contains(query, playlists[p].name)]_vars

\* ---- C16
\* C16: getPlaylistWithSongs(p) fails "not found" when p does not exist; when p
\* exists it answers 200 with exactly the songs of p.songIds that are in the
\* catalog, with no error for the ids that are not; no step of it changes
\* p.songIds or any store.
GetResolvesExistingSongs ==
  [][\A r \in Slots :
       (StepOf(r) /\ req'[r].op = "get" /\ auth(req'[r].caller))
       => LET p == req'[r].pid
          IN  /\ users' = users /\ songs' = songs /\ playlists' = playlists
              /\ (Starts(r) /\ ~playlists[p].exists)
                 => /\ req'[r].pc = "done" /\ req'[r].status = 400
                    /\ req'[r].message = "not found"
              /\ (Starts(r) /\ playlists[p].exists) => req'[r].pc = "findSongs"
              /\ (~Starts(r) /\ playlists[p].exists)
                 => /\ req'[r].pc = "done" /\ req'[r].status = 200
                    /\ req'[r].data = {s \in SongsOf(p) : songs[s].exists}]_vars

\* the admin deleted s1, and a get of p1, which still lists s1, answered 200
\* without it
WitnessC16 ==
  \E r, q \in Slots :
    /\ req[q].pc = "done" /\ req[q].op = "deleteSong" /\ req[q].status = 200
    /\ req[q].sid = "s1"
    /\ req[r].pc = "done" /\ req[r].op = "get" /\ req[r].status = 200
    /\ req[r].pid = "p1" /\ req[r].data = {}
    /\ playlists["p1"].songs = <<"s1">> /\ ~songs["s1"].exists

\* ---- C17
\* the ids of a list other than x, in their order
Others(arr, x) == SelectSeq(arr, LAMBDA e : e # x)

\* C17: the write of deletePlaylist(u,p) to u's playlist list removes only the
\* id of p: every other id is still there, in the same order, also when p
\* exists and is owned by u but its id is not in u's list.
CounterC17 ==
  [][\A r \in Slots :
       (/\ req[r].op = "delete" /\ req[r].pc = "saveUser" /\ StepOf(r)
        /\ Owner(req[r].caller, req[r].pid))
       => Others(users'[req[r].caller].playList, req[r].pid)
            = Others(users[req[r].caller].playList, req[r].pid)]_vars

\* ---- C18
\* C18: PUT /api/users/:id by an authenticated caller who is not an admin and
\* whose id differs from :id ends 403 and leaves the target user's record
\* unchanged.
CounterC18 ==
  [][\A r \in Slots :
       (/\ Starts(r) /\ req'[r].op = "updateUser"
        /\ req'[r].caller \in UserIds \ Admins
        /\ req'[r].caller # req'[r].uid)
       => /\ req'[r].status = 403
          /\ users'[req'[r].uid] = users[req'[r].uid]]_vars

====
